---- MODULE Spec2Model ----
(***************************************************************************)
(* Edge-strip compositing of printed_edges: the page loop of               *)
(* process_pdf_files, process_pdf_files_multi_edge (python-service/app.py), *)
(* of process_pdf (api/process-pdf.py) and of process_pdf_simple           *)
(* (api/process-python.py), one page per step.                             *)
(*                                                                         *)
(* Spec: calls with the artwork of their mode and a page count of 0 or     *)
(* more.  RequestSpec: one request as the HTTP shells take it, with any    *)
(* artwork missing and any page count.  ConcurrentSpec: two all-edges      *)
(* requests served by two threads.  SequentialSpec: two all-edges          *)
(* requests served one after the other.                                    *)
(*                                                                         *)
(* Lengths are PDF points (72 per inch), pixel counts are integers.  The   *)
(* slice width is computed in IEEE-754 binary64 as Python computes it.     *)
(***************************************************************************)
EXTENDS Integers, Sequences, FiniteSets, TLC

(***************************************************************************)
(* Natural numbers of any size as sequences of hexadecimal digits, least   *)
(* significant first, without leading (high) zero digits; <<>> is zero.    *)
(***************************************************************************)
RECURSIVE NatToDigits(_)
NatToDigits(n) == IF n = 0 THEN <<>> ELSE <<n % 16>> \o NatToDigits(n \div 16)

RECURSIVE DigitsToNat(_)
DigitsToNat(d) == IF d = <<>> THEN 0 ELSE d[1] + 16 * DigitsToNat(Tail(d))

\* the index of the highest element of s that is not 0 (0 when there is none)
TopIndex(s) == Cardinality({i \in 1..Len(s) : \E j \in i..Len(s) : s[j] # 0})

TrimDigits(d) == SubSeq(d, 1, TopIndex(d))

\* a * n + carry for a small natural n
RECURSIVE MulCarry(_, _, _)
MulCarry(a, n, carry) ==
    IF a = <<>> THEN NatToDigits(carry)
    ELSE LET p == a[1] * n + carry
         IN  <<p % 16>> \o MulCarry(Tail(a), n, p \div 16)

MulSmall(a, n) == TrimDigits(MulCarry(a, n, 0))

\* a >= b: the longer is the larger; equal lengths are decided by the highest digit that differs
GeqDigits(a, b) ==
    IF Len(a) # Len(b) THEN Len(a) > Len(b)
    ELSE ~ \E i \in 1..Len(a) : a[i] < b[i] /\ \A j \in (i + 1)..Len(a) : a[j] = b[j]

\* a - b for a >= b
RECURSIVE SubBorrow(_, _, _)
SubBorrow(a, b, borrow) ==
    IF a = <<>> THEN <<>>
    ELSE LET d == a[1] - (IF b = <<>> THEN 0 ELSE b[1]) - borrow
         IN  <<d % 16>> \o SubBorrow(Tail(a), IF b = <<>> THEN <<>> ELSE Tail(b),
                                     IF d < 0 THEN 1 ELSE 0)

SubDigits(a, b) == TrimDigits(SubBorrow(a, b, 0))

\* long division of a by b # 0, one hexadecimal digit of a per step from the top:
\* [q, r] with a = q * b + r and r < b
DivStates == [i : Nat, q : Seq(0..15), r : Seq(0..15)]

DivModDigits(a, b) ==
    LET DivStep[s \in DivStates] ==
            IF s.i = 0 THEN [q |-> TrimDigits(s.q), r |-> s.r]
            ELSE LET r2 == TrimDigits(<<a[s.i]>> \o s.r)
                     qd == Cardinality({d \in 1..15 : GeqDigits(r2, MulSmall(b, d))})
                 IN  DivStep[[i |-> s.i - 1, q |-> <<qd>> \o s.q,
                              r |-> SubDigits(r2, MulSmall(b, qd))]]
    IN  DivStep[[i |-> Len(a), q |-> <<>>, r |-> <<>>]]

\* digits <-> bits (least significant first)
DigitsToBits(d) ==
    LET all == [i \in 1..(4 * Len(d)) |-> (d[((i - 1) \div 4) + 1] \div (2 ^ ((i - 1) % 4))) % 2]
    IN  SubSeq(all, 1, TopIndex(all))

BitAt(b, i) == IF i >= 1 /\ i <= Len(b) THEN b[i] ELSE 0

BitsToDigits(b) ==
    TrimDigits([j \in 1..((Len(b) + 3) \div 4) |->
        BitAt(b, 4 * j - 3) + 2 * BitAt(b, 4 * j - 2) + 4 * BitAt(b, 4 * j - 1) + 8 * BitAt(b, 4 * j)])

Zeros(n) == [i \in 1..n |-> 0]

(***************************************************************************)
(* IEEE-754 binary64 as Python's float: [sign, m, e] stands for            *)
(* sign * m * 2^e with m the MantissaBits bits of the significand, least   *)
(* significant first; zero has m = <<>>.  Results are rounded to nearest,  *)
(* ties to even.  The magnitudes met here are far from the subnormal and   *)
(* overflow ranges.                                                        *)
(***************************************************************************)
MantissaBits == 53

\* bits + 1
Increment(b) ==
    LET ones == Cardinality({i \in 1..Len(b) : \A j \in 1..i : b[j] = 1})
    IN  IF ones = Len(b) THEN Zeros(Len(b)) \o <<1>>
        ELSE [i \in 1..Len(b) |-> IF i <= ones THEN 0 ELSE IF i = ones + 1 THEN 1 ELSE b[i]]

\* the bits n (n # 0) times 2^e, sticky telling that lower bits were already lost,
\* rounded to a binary64
RoundToDouble(sign, n, e, sticky) ==
    LET len == Len(n) IN
    IF len <= MantissaBits
    THEN [sign |-> sign, m |-> Zeros(MantissaBits - len) \o n, e |-> e - (MantissaBits - len)]
    ELSE LET drop == len - MantissaBits
             kept == SubSeq(n, drop + 1, len)
             guard == n[drop]
             low == sticky \/ \E i \in 1..(drop - 1) : n[i] = 1
             up == guard = 1 /\ (low \/ kept[1] = 1)
             m1 == IF up THEN Increment(kept) ELSE kept
         IN  IF Len(m1) > MantissaBits
             THEN [sign |-> sign, m |-> SubSeq(m1, 2, Len(m1)), e |-> e + drop + 1]
             ELSE [sign |-> sign, m |-> m1, e |-> e + drop]

DoubleZero == [sign |-> 1, m |-> <<>>, e |-> 0]

IsZero(x) == x.m = <<>>

Abs(n) == IF n < 0 THEN 0 - n ELSE n

Sign(n) == IF n < 0 THEN 0 - 1 ELSE 1

\* n * x for an int n and a float x: n is converted exactly (|n| < 2^53), the
\* exact product is rounded once
IntMulFloat(n, x) ==
    IF n = 0 \/ IsZero(x) THEN DoubleZero
    ELSE RoundToDouble(Sign(n) * x.sign,
                       DigitsToBits(MulSmall(BitsToDigits(x.m), Abs(n))), x.e, FALSE)

\* x / y for y # 0 (Python raises ZeroDivisionError for y = 0): the quotient of the
\* significands is taken to 14 more hexadecimal digits than x has, a non-zero
\* remainder is the sticky bit, and the result is rounded once
FloatDiv(x, y) ==
    IF IsZero(x) THEN DoubleZero
    ELSE LET extra == 14
             d == DivModDigits(Zeros(extra) \o BitsToDigits(x.m), BitsToDigits(y.m))
         IN  RoundToDouble(x.sign * y.sign, DigitsToBits(d.q),
                           x.e - 4 * extra - y.e, d.r # <<>>)

RECURSIVE BitsToNat(_)
BitsToNat(b) == IF b = <<>> THEN 0 ELSE b[1] + 2 * BitsToNat(Tail(b))

\* int(x): truncation toward zero
FloatToInt(x) ==
    IF IsZero(x) THEN 0
    ELSE IF x.e >= 0 THEN x.sign * BitsToNat(Zeros(x.e) \o x.m)
    ELSE IF 0 - x.e >= MantissaBits THEN 0
    ELSE x.sign * BitsToNat(SubSeq(x.m, 1 - x.e, MantissaBits))

\* the positive binary64 that float.hex() writes 0x1.<frac>p<exp>, frac being 13
\* hexadecimal digits, most significant first
HexDouble(frac, exp) ==
    [sign |-> 1,
     m |-> DigitsToBits([i \in 1..Len(frac) |-> frac[Len(frac) + 1 - i]] \o <<1>>),
     e |-> exp - (MantissaBits - 1)]

(***************************************************************************)
(* Constants of python-service/app.py (api/process-pdf.py lines 11-22      *)
(* repeat them).  Lengths are whole PDF points: 0.125 in * 72 = 9.0.       *)
(***************************************************************************)
POINTS_PER_INCH == 72

BLEED_POINTS == 9

SAFETY_BUFFER_POINTS == 9

\* PAGE_THICKNESS.get(page_type.lower(), 0.0032): 0.0032 = 0x1.a36e2eb1c432dp-9 and
\* 0.0037 = 0x1.e4f765fd8adacp-9
PAGE_THICKNESS(page_type) ==
    IF page_type = "premium"
    THEN HexDouble(<<14, 4, 15, 7, 6, 5, 15, 13, 8, 10, 13, 10, 12>>, 0 - 9)
    ELSE HexDouble(<<10, 3, 6, 14, 2, 14, 11, 1, 12, 4, 3, 2, 13>>, 0 - 9)

\* (num_pages + 1) // 2
num_leaves(num_pages) == (num_pages + 1) \div 2

\* a leaf of one page: the halving is left out
LeafPerPage(pn) == pn

\* page_num // 2
leaf_number(pn) == pn \div 2

\* Python's max(p, q)
Max2(p, q) == IF p >= q THEN p ELSE q

\* max(1, int(edge_width * (page_thickness_inches / total_thickness_inches))) with
\* total_thickness_inches = page_thickness_inches * num_leaves; the division raises
\* ZeroDivisionError when the total is 0.0
single_leaf_thickness_pixels(extent, page_type, leaves) ==
    LET page_thickness_inches == PAGE_THICKNESS(page_type)
        total_thickness_inches == IntMulFloat(leaves, page_thickness_inches)
    IN  IF IsZero(total_thickness_inches) THEN [raised |-> TRUE, value |-> 0]
        ELSE [raised |-> FALSE,
              value |-> Max2(1, FloatToInt(IntMulFloat(extent,
                                 FloatDiv(page_thickness_inches, total_thickness_inches))))]

(***************************************************************************)
(* Page geometry (process_pdf_files; process_pdf_files_multi_edge lines    *)
(* 330-337 and 376-394 and api process_pdf lines 99-106 and 126-142 are    *)
(* the same statements).  A rectangle is <<x0, y0, x1, y1>>.               *)
(***************************************************************************)
bleed_points(bleed_type) == IF bleed_type = "add_bleed" THEN BLEED_POINTS ELSE 0

new_width(bleed_type, original_width) ==
    IF bleed_type = "add_bleed" THEN original_width + bleed_points(bleed_type)
    ELSE original_width

\* the bleed is added whatever the policy
HeightWithBleed(bleed_type, original_height) == original_height + (2 * BLEED_POINTS)

new_height(bleed_type, original_height) ==
    IF bleed_type = "add_bleed" THEN original_height + (2 * bleed_points(bleed_type))
    ELSE original_height

\* the recto placement on every page
RectoRectOnly(bleed_type, pn, original_width, original_height) ==
    <<0, bleed_points(bleed_type), original_width, bleed_points(bleed_type) + original_height>>

content_rect(bleed_type, pn, original_width, original_height) ==
    IF bleed_type = "add_bleed"
    THEN IF pn % 2 = 0
         THEN <<0, bleed_points(bleed_type), original_width,
                bleed_points(bleed_type) + original_height>>
         ELSE <<bleed_points(bleed_type), bleed_points(bleed_type),
                bleed_points(bleed_type) + original_width,
                bleed_points(bleed_type) + original_height>>
    ELSE <<0, 0, original_width, original_height>>

(***************************************************************************)
(* Images.  An image is the region box of the artwork file name, scaled to *)
(* size = <<width, height>> pixels; left and right are the artwork         *)
(* x-coordinates shown at its left and right border.                       *)
(***************************************************************************)
\* Image.open(file).convert("RGBA")
ImageOpen(name, size) ==
    [name |-> name, box |-> <<0, 0, size[1], size[2]>>, size |-> size,
     left |-> 0, right |-> size[1]]

\* image.crop(box) of an opened artwork: coordinates outside the artwork are kept
\* (PIL fills them with transparent pixels and raises nothing)
crop(img, box) ==
    [name |-> img.name, box |-> box, size |-> <<box[3] - box[1], box[4] - box[2]>>,
     left |-> box[1], right |-> box[3]]

\* the image keeps its pixel size
KeepSize(img, size) == img

\* image.resize(size, LANCZOS): the same region in another pixel size
resize(img, size) == [img EXCEPT !.size = size]

\* the image is left as it is
NotMirrored(img) == img

\* the right border is copied to the left and not the left to the right
RightBorderOnly(img) == [img EXCEPT !.left = img.right]

\* ImageOps.mirror(image): pixel column c becomes column width - 1 - c, so the
\* borders change places
mirror(img) == [img EXCEPT !.left = img.right, !.right = img.left]

\* Python's None for previous_slice; a cached image v is <<v>>
None == <<>>

\* new_pdf.new_page(width, height) followed by show_pdf_page(rect, pdf_doc, page_num)
new_page(width, height, rect, pn) ==
    [width |-> width, height |-> height, content |-> [rect |-> rect, page |-> pn],
     images |-> <<>>, operations |-> <<>>]

\* the pass has called the image operations ops, in this order, for the strip of an
\* edge: operations lists them as <<edge, operation>>
performed(page, edge, ops) ==
    [page EXCEPT !.operations = @ \o [i \in 1..Len(ops) |-> <<edge, ops[i]>>]]

\* crop(...), resize(...) to the canvas, resize(...) to the strip
slice_operations == <<"crop", "resize", "resize">>

\* page.insert_image(rect, stream = image, keep_proportion = False)
insert_image(page, rect, img) ==
    [page EXCEPT !.images = Append(@, [rect |-> rect, image |-> img])]

(***************************************************************************)
(* The inputs of the model's runs.                                         *)
(***************************************************************************)
MaxDocPages == 4

MaxNumPages == 1

MaxRuns == 1

MaxNegPages == 3

LongDocPages == 11

BleedTypes == {"add_bleed", "existing_bleed"}

PageTypes == {"standard", "premium"}

\* num_pages as the caller states it: it need not be the length of the document
NumPages == (0..MaxNumPages) \cup {20}

\* <<original_width, original_height>> of the document's first page, in points
PageSizes == {<<6 * POINTS_PER_INCH, 9 * POINTS_PER_INCH>>, <<10, 12>>}

\* <<width, height>> of an artwork file, in pixels
ArtSizes == {<<1000, 30>>, <<1, 4>>}

\* numPages of a request: the shells pass on any integer, also 0 and negative ones
RequestNumPages == ((0 - MaxNegPages)..MaxNumPages) \cup {20}

LeafCounts == {num_leaves(np) : np \in NumPages \cup RequestNumPages}

Extents == {sz[1] : sz \in ArtSizes} \cup {sz[2] : sz \in ArtSizes}

\* single_leaf_thickness_pixels for the inputs of the model, computed once:
\* thickness_pixels[<<page_type, num_leaves, extent>>]
ThicknessKeys == PageTypes \X LeafCounts \X Extents

ThicknessTable ==
    {<<key, single_leaf_thickness_pixels(key[3], key[1], key[2])>> : key \in ThicknessKeys}

thickness_pixels ==
    [key \in ThicknessKeys |-> (CHOOSE entry \in ThicknessTable : entry[1] = key)[2]]

(***************************************************************************)
(* State.  call holds the arguments of the running (or last) call with the *)
(* files it opened; page_num, previous_slice and new_pdf are its locals;   *)
(* globals is the module namespace of python-service/app.py as far as the  *)
(* code writes it with globals()[...]; it outlives the calls.  suspended   *)
(* holds call, page_num, previous_slice, new_pdf and status of the request *)
(* of the server's other thread while that thread does not run.            *)
(***************************************************************************)
VARIABLES call, page_num, previous_slice, new_pdf, globals, status, runs, suspended

vars == <<call, page_num, previous_slice, new_pdf, globals, status, runs, suspended>>

NoGlobals == [key \in {} |-> None]

\* the value is not stored
DropGlobal(glob, key, value) == glob

\* the value is stored only while the key is free
SetGlobalOnce(glob, key, value) ==
    IF key \in DOMAIN glob THEN glob
    ELSE [k \in (DOMAIN glob) \cup {key} |-> IF k = key THEN value ELSE glob[k]]

SetGlobal(glob, key, value) ==
    [k \in (DOMAIN glob) \cup {key} |-> IF k = key THEN value ELSE glob[k]]

NoCall ==
    [fn |-> "none", num_pages |-> 0, page_type |-> "standard", bleed_type |-> "add_bleed",
     edge_type |-> "side-only", pages |-> 0, original_width |-> 0, original_height |-> 0,
     edge_images |-> NoGlobals]

\* a thread that has taken no request
NoRequest ==
    [call |-> NoCall, page_num |-> 0, previous_slice |-> None, new_pdf |-> <<>>,
     status |-> "idle"]

Init ==
    /\ call = NoCall
    /\ page_num = 0
    /\ previous_slice = None
    /\ new_pdf = <<>>
    /\ globals = NoGlobals
    /\ status = "idle"
    /\ runs = 0
    /\ suspended = NoRequest

\* the exception leaves the page as far as it was composed
Raise(page, prev, glob) ==
    [raised |-> TRUE, page |-> page, previous_slice |-> prev, globals |-> glob]

Done(page, prev, glob) ==
    [raised |-> FALSE, page |-> page, previous_slice |-> prev, globals |-> glob]

(***************************************************************************)
(* One pass of a page loop.  px is the entry of thickness_pixels for the   *)
(* artwork that the pass slices.                                           *)
(***************************************************************************)
slice_pixels(req, extent) ==
    thickness_pixels[<<req.page_type, num_leaves(req.num_pages), extent>>]

\* the page of the pass before any strip is painted
blank_page(req, pn) ==
    new_page(new_width(req.bleed_type, req.original_width),
             new_height(req.bleed_type, req.original_height),
             content_rect(req.bleed_type, pn, req.original_width, req.original_height), pn)

(***************************************************************************)
(* process_pdf_files                                                       *)
(***************************************************************************)
edge_strip_width == BLEED_POINTS + SAFETY_BUFFER_POINTS

process_pdf_files_edge(req, pn, prev, glob, page, px) ==
    LET edge_img == req.edge_images["side"]
        slice_x_start == leaf_number(pn) * px.value
        slice_x_end == slice_x_start + px.value
        page_slice == resize(crop(edge_img, <<slice_x_start, 0, slice_x_end, edge_img.size[2]>>),
                             <<px.value, page.height>>)
        stretched_slice == resize(page_slice, <<edge_strip_width, page.height>>)
    IN  IF px.raised THEN Raise(page, prev, glob)
        ELSE IF pn % 2 = 0
        THEN Done(insert_image(performed(page, "side", slice_operations),
                      <<page.width - (BLEED_POINTS + SAFETY_BUFFER_POINTS), 0,
                        page.width, page.height>>,
                      stretched_slice),
                  <<stretched_slice>>, glob)
        ELSE IF prev = None THEN Raise(performed(page, "side", slice_operations), prev, glob)
        ELSE Done(insert_image(performed(page, "side", slice_operations \o <<"mirror">>),
                      <<0, 0, BLEED_POINTS + SAFETY_BUFFER_POINTS, page.height>>,
                      mirror(prev[1])),
                  prev, glob)

process_pdf_files_page(req, pn, prev, glob) ==
    process_pdf_files_edge(req, pn, prev, glob, blank_page(req, pn),
                           slice_pixels(req, req.edge_images["side"].size[1]))

(***************************************************************************)
(* process_pdf_files_multi_edge                                            *)
(***************************************************************************)
\* edge_type == "side-only"
multi_edge_side_only(req, pn, prev, glob, page, px) ==
    LET edge_img == req.edge_images["side"]
        slice_x_start == leaf_number(pn) * px.value
        slice_x_end == slice_x_start + px.value
        page_slice == resize(crop(edge_img, <<slice_x_start, 0, slice_x_end, edge_img.size[2]>>),
                             <<px.value, page.height>>)
        stretched_slice == resize(page_slice, <<edge_strip_width, page.height>>)
    IN  IF px.raised THEN Raise(page, prev, glob)
        ELSE IF pn % 2 = 0
        THEN Done(insert_image(performed(page, "side", slice_operations),
                      <<page.width - (BLEED_POINTS + SAFETY_BUFFER_POINTS), 0,
                        page.width, page.height>>,
                      stretched_slice),
                  <<stretched_slice>>, glob)
        ELSE IF prev = None THEN Raise(performed(page, "side", slice_operations), prev, glob)
        ELSE Done(insert_image(performed(page, "side", slice_operations \o <<"mirror">>),
                      <<0, 0, BLEED_POINTS + SAFETY_BUFFER_POINTS, page.height>>,
                      mirror(prev[1])),
                  prev, glob)

\* a strip as thick as the bleed alone
BleedOnlyHeight == BLEED_POINTS

edge_strip_height == BLEED_POINTS + SAFETY_BUFFER_POINTS
\* the top strip cut from the artwork on every page, the verso pages as well
TopCutOnEveryPage(req, pn, prev, glob, page, px) ==
    LET top_img == req.edge_images["top"]
        top_slice_y_start == leaf_number(pn) * px.value
        top_slice == resize(crop(top_img, <<0, top_slice_y_start, top_img.size[1],
                                            top_slice_y_start + px.value>>),
                            <<page.width, px.value>>)
        top_stretched == resize(top_slice, <<page.width, edge_strip_height>>)
    IN  IF px.raised THEN Raise(page, prev, glob)
        ELSE Done(insert_image(performed(page, "top", slice_operations),
                               <<0, 0, page.width, edge_strip_height>>, top_stretched),
                  prev, SetGlobal(glob, "previous_top_slice", top_stretched))

\* all-edges, 'top' in edge_images: the recto slice is kept in globals()
multi_edge_top(req, pn, prev, glob, page, px) ==
    LET top_img == req.edge_images["top"]
        top_width == top_img.size[1]
        top_slice_y_start == leaf_number(pn) * px.value
        top_slice_y_end == top_slice_y_start + px.value
        top_slice == resize(crop(top_img, <<0, top_slice_y_start, top_width, top_slice_y_end>>),
                            <<page.width, px.value>>)
        top_stretched == resize(top_slice, <<page.width, edge_strip_height>>)
        top_rect == <<0, 0, page.width, edge_strip_height>>
    IN  IF pn % 2 = 0
        THEN IF px.raised THEN Raise(page, prev, glob)
             ELSE Done(insert_image(performed(page, "top", slice_operations), top_rect, top_stretched), prev,
                       SetGlobal(glob, "previous_top_slice", top_stretched))
        ELSE IF "previous_top_slice" \notin DOMAIN glob THEN Raise(page, prev, glob)
        ELSE Done(insert_image(performed(page, "top", <<"mirror">>), top_rect, mirror(glob["previous_top_slice"])), prev, glob)

\* all-edges, 'bottom' in edge_images
multi_edge_bottom(req, pn, prev, glob, page, px) ==
    LET bottom_img == req.edge_images["bottom"]
        bottom_width == bottom_img.size[1]
        bottom_slice_y_start == leaf_number(pn) * px.value
        bottom_slice_y_end == bottom_slice_y_start + px.value
        bottom_slice == resize(crop(bottom_img, <<0, bottom_slice_y_start,
                                                  bottom_width, bottom_slice_y_end>>),
                               <<page.width, px.value>>)
        bottom_stretched == resize(bottom_slice, <<page.width, edge_strip_height>>)
        bottom_y == page.height - edge_strip_height
        bottom_rect == <<0, bottom_y, page.width, page.height>>
    IN  IF pn % 2 = 0
        THEN IF px.raised THEN Raise(page, prev, glob)
             ELSE Done(insert_image(performed(page, "bottom", slice_operations), bottom_rect, bottom_stretched), prev,
                       SetGlobal(glob, "previous_bottom_slice", bottom_stretched))
        ELSE IF "previous_bottom_slice" \notin DOMAIN glob THEN Raise(page, prev, glob)
        ELSE Done(insert_image(performed(page, "bottom", <<"mirror">>), bottom_rect, mirror(glob["previous_bottom_slice"])),
                  prev, glob)

\* a strip as wide as the bleed alone
BleedOnlyWidth == BLEED_POINTS

side_strip_width == BLEED_POINTS + SAFETY_BUFFER_POINTS

\* all-edges, 'side' in edge_images
multi_edge_side(req, pn, prev, glob, page, px) ==
    LET side_img == req.edge_images["side"]
        side_height == side_img.size[2]
        side_slice_x_start == leaf_number(pn) * px.value
        side_slice_x_end == side_slice_x_start + px.value
        side_slice == resize(crop(side_img, <<side_slice_x_start, 0,
                                              side_slice_x_end, side_height>>),
                             <<px.value, page.height>>)
        side_stretched == resize(side_slice, <<side_strip_width, page.height>>)
    IN  IF px.raised THEN Raise(page, prev, glob)
        ELSE IF pn % 2 = 0
        THEN Done(insert_image(performed(page, "side", slice_operations),
                      <<page.width - side_strip_width, 0, page.width, page.height>>,
                      side_stretched),
                  <<side_stretched>>, glob)
        ELSE IF prev = None THEN Raise(performed(page, "side", slice_operations), prev, glob)
        ELSE Done(insert_image(performed(page, "side", slice_operations \o <<"mirror">>), <<0, 0, side_strip_width, page.height>>,
                               mirror(prev[1])),
                  prev, glob)

\* the parts of an all-edges pass, one after the other: a part is skipped when an
\* earlier part raised or its artwork is absent
then_top(res, req, pn) ==
    IF (~ res.raised) /\ "top" \in DOMAIN req.edge_images
    THEN multi_edge_top(req, pn, res.previous_slice, res.globals, res.page,
                        slice_pixels(req, req.edge_images["top"].size[2]))
    ELSE res

then_bottom(res, req, pn) ==
    IF (~ res.raised) /\ "bottom" \in DOMAIN req.edge_images
    THEN multi_edge_bottom(req, pn, res.previous_slice, res.globals, res.page,
                           slice_pixels(req, req.edge_images["bottom"].size[2]))
    ELSE res

then_side(res, req, pn) ==
    IF (~ res.raised) /\ "side" \in DOMAIN req.edge_images
    THEN multi_edge_side(req, pn, res.previous_slice, res.globals, res.page,
                         slice_pixels(req, req.edge_images["side"].size[1]))
    ELSE res

process_pdf_files_multi_edge_page(req, pn, prev, glob) ==
    IF req.edge_type = "side-only"
    THEN multi_edge_side_only(req, pn, prev, glob, blank_page(req, pn),
                              slice_pixels(req, req.edge_images["side"].size[1]))
    ELSE then_side(then_bottom(then_top(Done(blank_page(req, pn), prev, glob), req, pn),
                               req, pn),
                   req, pn)

(***************************************************************************)
(* process_pdf of api/process-pdf.py                                       *)
(***************************************************************************)
\* the strip as wide as the safety buffer alone
SafetyBufferOnly == SAFETY_BUFFER_POINTS

api_edge_strip_width == BLEED_POINTS + SAFETY_BUFFER_POINTS

api_process_pdf_edge(req, pn, prev, glob, page, px) ==
    LET edge_img == req.edge_images["side"]
        slice_x_start == leaf_number(pn) * px.value
        slice_x_end == slice_x_start + px.value
        page_slice == resize(crop(edge_img, <<slice_x_start, 0, slice_x_end, edge_img.size[2]>>),
                             <<px.value, page.height>>)
        stretched_slice == resize(page_slice, <<api_edge_strip_width, page.height>>)
    IN  IF px.raised THEN Raise(page, prev, glob)
        ELSE IF pn % 2 = 0
        THEN Done(insert_image(performed(page, "side", slice_operations),
                      <<page.width - api_edge_strip_width, 0, page.width, page.height>>,
                      stretched_slice),
                  <<stretched_slice>>, glob)
        \* continue: the page stays without a strip
        ELSE IF prev = None THEN Done(performed(page, "side", slice_operations), prev, glob)
        ELSE Done(insert_image(performed(page, "side", slice_operations \o <<"mirror">>), <<0, 0, api_edge_strip_width, page.height>>,
                               mirror(prev[1])),
                  prev, glob)

\* a request without side artwork is an error
SideDemanded(req, pn, prev, glob) ==
    IF "side" \notin DOMAIN req.edge_images THEN Raise(blank_page(req, pn), prev, glob)
    ELSE api_process_pdf_edge(req, pn, prev, glob, blank_page(req, pn),
                              slice_pixels(req, req.edge_images["side"].size[1]))

api_process_pdf_page(req, pn, prev, glob) ==
    IF "side" \notin DOMAIN req.edge_images THEN Done(blank_page(req, pn), prev, glob)
    ELSE api_process_pdf_edge(req, pn, prev, glob, blank_page(req, pn),
                              slice_pixels(req, req.edge_images["side"].size[1]))

(***************************************************************************)
(* process_pdf_simple of api/process-python.py: a filled rectangle stands  *)
(* where the strip would be; the artwork is decoded and not drawn.         *)
(***************************************************************************)
Min2(p, q) == IF p <= q THEN p ELSE q

\* page.draw_rect(rect, color, fill)
draw_rect(page, rect) ==
    insert_image(page, rect, ImageOpen("rect", <<rect[3] - rect[1], rect[4] - rect[2]>>))

process_pdf_simple_page(req, pn, prev, glob) ==
    LET page == blank_page(req, pn)
        simple_strip_width == BLEED_POINTS + SAFETY_BUFFER_POINTS
    IN  IF "side" \notin DOMAIN req.edge_images THEN Done(page, prev, glob)
        ELSE IF pn % 2 = 0
        THEN Done(draw_rect(page, <<page.width - simple_strip_width, 0, page.width, page.height>>),
                  prev, glob)
        ELSE Done(draw_rect(page, <<0, 0, simple_strip_width, page.height>>), prev, glob)

\* the pages the loop of a call visits: range(len(pdf_doc)), and
\* range(min(len(pdf_doc), 10)) in process_pdf_simple
loop_pages(req) == IF req.fn = "process_pdf_simple" THEN Min2(req.pages, 10) ELSE req.pages

(***************************************************************************)
(* Actions: a call begins (the statements before the page loop), composes  *)
(* one page per step, and returns.  At most MaxRuns calls are made, one    *)
(* after the other.                                                        *)
(***************************************************************************)
Arguments(fn, edge_type, np, pt, bt, pages, psz, images) ==
    [fn |-> fn, num_pages |-> np, page_type |-> pt, bleed_type |-> bt,
     edge_type |-> edge_type, pages |-> pages, original_width |-> psz[1],
     original_height |-> psz[2], edge_images |-> images]

Images(keys, art) == [key \in keys |-> ImageOpen(key, art)]

Begin(req) ==
    /\ status # "running"
    /\ runs < MaxRuns
    /\ call' = req
    /\ page_num' = 0
    /\ previous_slice' = None
    /\ new_pdf' = <<>>
    /\ status' = "running"
    /\ runs' = runs + 1
    /\ UNCHANGED <<globals, suspended>>

BeginProcessPdfFiles ==
    \E np \in NumPages, pt \in PageTypes, bt \in BleedTypes, pages \in 1..MaxDocPages,
       psz \in PageSizes, art \in ArtSizes :
        Begin(Arguments("process_pdf_files", "side-only", np, pt, bt, pages, psz,
                        Images({"side"}, art)))

\* called by the route /process-files, which demands the side artwork for side-only
\* and all three artworks for all-edges
BeginProcessPdfFilesMultiEdge ==
    \E np \in NumPages, pt \in PageTypes, bt \in BleedTypes, pages \in 1..MaxDocPages,
       psz \in PageSizes, art \in ArtSizes, edge_type \in {"side-only", "all-edges"} :
        Begin(Arguments("process_pdf_files_multi_edge", edge_type, np, pt, bt, pages, psz,
                        IF edge_type = "side-only" THEN Images({"side"}, art)
                        ELSE Images({"top", "side", "bottom"}, art)))

\* the side artwork may be absent from the request; edge_type is not read
BeginApiProcessPdf ==
    \E np \in NumPages, pt \in PageTypes, bt \in BleedTypes, pages \in 1..MaxDocPages,
       psz \in PageSizes, art \in ArtSizes, keys \in {{"side"}, {}} :
        Begin(Arguments("api_process_pdf", "side-only", np, pt, bt, pages, psz,
                        Images(keys, art)))

\* the effect of one pass: the page is in new_pdf; an exception ends the call
Pass(res) ==
    /\ new_pdf' = Append(new_pdf, res.page)
    /\ previous_slice' = res.previous_slice
    /\ globals' = res.globals
    /\ page_num' = IF res.raised THEN page_num ELSE page_num + 1
    /\ status' = IF res.raised THEN "error" ELSE status
    /\ UNCHANGED <<call, runs, suspended>>

InLoop(fn) == status = "running" /\ call.fn = fn /\ page_num < loop_pages(call)

PageProcessPdfFiles ==
    /\ InLoop("process_pdf_files")
    /\ Pass(process_pdf_files_page(call, page_num, previous_slice, globals))

PageProcessPdfFilesMultiEdge ==
    /\ InLoop("process_pdf_files_multi_edge")
    /\ Pass(process_pdf_files_multi_edge_page(call, page_num, previous_slice, globals))

PageApiProcessPdf ==
    /\ InLoop("api_process_pdf")
    /\ Pass(api_process_pdf_page(call, page_num, previous_slice, globals))

\* the loop is over: the document is saved and returned
Return ==
    /\ status = "running"
    /\ page_num = loop_pages(call)
    /\ status' = "success"
    /\ UNCHANGED <<call, page_num, previous_slice, new_pdf, globals, runs, suspended>>

Next ==
    \/ BeginProcessPdfFiles
    \/ BeginProcessPdfFilesMultiEdge
    \/ BeginApiProcessPdf
    \/ PageProcessPdfFiles
    \/ PageProcessPdfFilesMultiEdge
    \/ PageApiProcessPdf
    \/ Return

Spec == Init /\ [][Next]_vars

(***************************************************************************)
(* Requests as the HTTP shells take them: the route /process-files of      *)
(* python-service/app.py, do_POST of api/process-pdf.py and do_POST of     *)
(* api/process-python.py.  The artwork of any edge may be missing, edgeType *)
(* is either mode, numPages is any integer of RequestNumPages.  One        *)
(* request is made.                                                        *)
(***************************************************************************)
EdgeNames == {"top", "side", "bottom"}

FileKeys == {"topEdge", "edge", "bottomEdge"}

\* the key of edge_images for a file of the request
image_key(file_key) ==
    IF file_key = "topEdge" THEN "top" ELSE IF file_key = "edge" THEN "side" ELSE "bottom"

\* the files that process_files demands for the mode
required_edges(edge_type) ==
    IF edge_type = "side-only" THEN {"edge"} ELSE {"topEdge", "edge", "bottomEdge"}

RequestPageSizes == {<<6 * POINTS_PER_INCH, 9 * POINTS_PER_INCH>>}

RequestArtSizes == {<<1000, 30>>}

\* return jsonify({"status": "error", ...}), 400: no document is opened
Refuse(req) ==
    /\ call' = req
    /\ page_num' = 0
    /\ previous_slice' = None
    /\ new_pdf' = <<>>
    /\ status' = "error"
    /\ runs' = runs + 1
    /\ UNCHANGED <<globals, suspended>>

\* process_files: a file that is missing or has an empty name ends the request with
\* 400; else process_pdf_files_multi_edge is called with the files of the mode
ProcessFiles ==
    \E np \in RequestNumPages, pt \in PageTypes, bt \in BleedTypes, pages \in 1..MaxDocPages,
       psz \in RequestPageSizes, art \in RequestArtSizes,
       edge_type \in {"side-only", "all-edges"}, files \in SUBSET FileKeys :
        /\ runs = 0
        /\ IF required_edges(edge_type) \subseteq files
           THEN Begin(Arguments("process_pdf_files_multi_edge", edge_type, np, pt, bt, pages,
                                psz, Images({image_key(f) : f \in required_edges(edge_type)},
                                            art)))
           ELSE Refuse(Arguments("process_files", edge_type, np, pt, bt, pages, psz,
                                 Images({image_key(f) : f \in files}, art)))

\* do_POST of api/process-pdf.py: edge_imgs holds the artwork whose base64 is not empty
ApiProcessPdf ==
    \E np \in RequestNumPages, pt \in PageTypes, bt \in BleedTypes, pages \in 1..MaxDocPages,
       psz \in RequestPageSizes, art \in RequestArtSizes,
       edge_type \in {"side-only", "all-edges"}, keys \in SUBSET EdgeNames :
        /\ runs = 0
        /\ Begin(Arguments("api_process_pdf", edge_type, np, pt, bt, pages, psz,
                           Images(keys, art)))

\* do_POST of api/process-python.py: only the side artwork is decoded
ApiProcessPython ==
    \E bt \in BleedTypes, pages \in (1..MaxDocPages) \cup {LongDocPages},
       psz \in RequestPageSizes, art \in RequestArtSizes,
       edge_type \in {"side-only", "all-edges"}, keys \in SUBSET {"side"} :
        /\ runs = 0
        /\ Begin(Arguments("process_pdf_simple", edge_type, 20, "standard", bt, pages, psz,
                           Images(keys, art)))

PageProcessPdfSimple ==
    /\ InLoop("process_pdf_simple")
    /\ Pass(process_pdf_simple_page(call, page_num, previous_slice, globals))

RequestNext ==
    \/ ProcessFiles
    \/ ApiProcessPdf
    \/ ApiProcessPython
    \/ PageProcessPdfFilesMultiEdge
    \/ PageApiProcessPdf
    \/ PageProcessPdfSimple
    \/ Return

RequestSpec == Init /\ [][RequestNext]_vars

(***************************************************************************)
(* Properties                                                              *)
(***************************************************************************)
\* S = bleed + safetyBuffer
StripThickness == BLEED_POINTS + SAFETY_BUFFER_POINTS

\* the page with index p (from 0) of the document being composed
Composed == 0..(Len(new_pdf) - 1)

PageAt(p) == new_pdf[p + 1]

\* the placements [rect, image] on a page that show the artwork name
Painted(page, name) ==
    {page.images[i] : i \in {j \in DOMAIN page.images : page.images[j].image.name = name}}

AllPainted(page) == {page.images[i] : i \in DOMAIN page.images}

\* the slice window <<start, end>> of an image along the slicing axis of its artwork:
\* x for the side artwork, y for the top and bottom artwork
Window(img) ==
    IF img.name = "side" THEN <<img.box[1], img.box[3]>> ELSE <<img.box[2], img.box[4]>>

\* the extent of the opened artwork along its slicing axis
ArtworkExtent(name) ==
    IF name = "side" THEN call.edge_images[name].size[1] ELSE call.edge_images[name].size[2]

\* a verso page is about to be composed
AtVerso == status = "running" /\ page_num < call.pages /\ page_num % 2 = 1

\* Every verso page finds the slices of its recto page: page 0 is a recto page and a
\* recto pass either stores the slice of each artwork of the call or raises, so the
\* branches for a verso page without a stored slice (raise in python-service/app.py,
\* continue in api/process-pdf.py) are never taken.
VersoFindsStoredSlice ==
    AtVerso =>
        /\ "side" \in DOMAIN call.edge_images => previous_slice # None
        /\ "top" \in DOMAIN call.edge_images => "previous_top_slice" \in DOMAIN globals
        /\ "bottom" \in DOMAIN call.edge_images => "previous_bottom_slice" \in DOMAIN globals

\* C2: on every verso page 2k+1, the strip painted for an edge is the mirror of the
\* strip painted for the same edge on the recto page 2k of the same leaf: the same
\* artwork, the same region and pixel size, with left and right exchanged.
C2_VersoIsMirrorOfRecto ==
    \A p \in Composed : p % 2 = 1 =>
        \A v \in AllPainted(PageAt(p)) :
            /\ PageAt(p - 1).content.page = p - 1
            /\ \E r \in Painted(PageAt(p - 1), v.image.name) :
                /\ v.image.box = r.image.box
                /\ v.image.size = r.image.size
                /\ v.image.left = r.image.right
                /\ v.image.right = r.image.left
                /\ Window(r.image)[1] = (p \div 2) * (Window(r.image)[2] - Window(r.image)[1])

\* C2 witness: page 3, the verso of leaf 1, carries the mirrored top, bottom and side
\* strips in all-edges mode.
C2_Witness ==
    /\ call.edge_type = "all-edges"
    /\ Len(new_pdf) = 4
    /\ Cardinality(AllPainted(PageAt(3))) = 3
    /\ \A v \in AllPainted(PageAt(3)) : v.image.left > v.image.right

\* C3: the leaf of page p is p // 2: every strip painted on page p shows the window
\* that starts at (p // 2) * w, w being the window's width, so that the pages 2k and
\* 2k+1 of a leaf show the same window of every edge's artwork.
C3_LeafSharesWindow ==
    \A p \in Composed :
        \A v \in AllPainted(PageAt(p)) :
            /\ Window(v.image)[1] = (p \div 2) * (Window(v.image)[2] - Window(v.image)[1])
            /\ p % 2 = 1 =>
                \E r \in Painted(PageAt(p - 1), v.image.name) :
                    Window(r.image) = Window(v.image)

\* C3 witness: both pages of leaf 1 are composed and show a window that does not
\* start at 0.
C3_Witness ==
    /\ Len(new_pdf) = 4
    /\ \E v \in AllPainted(PageAt(3)) : Window(v.image)[1] > 0
    /\ \E r \in AllPainted(PageAt(2)) : Window(r.image)[1] > 0

\* C4: the side windows are [k*w, (k+1)*w) for the leaves k with one width w >= 1,
\* and a 20-page document with a 1000px artwork has w = 100 (windows [0,100), ...).
C4_SliceWindows ==
    \A p \in Composed :
        \A v \in Painted(PageAt(p), "side") :
            LET w == Window(v.image)[2] - Window(v.image)[1]
                k == p \div 2
            IN  num_leaves(call.num_pages) >= 1 =>
                    /\ w >= 1
                    /\ Window(v.image) = <<k * w, (k + 1) * w>>
                    /\ (call.num_pages = 20 /\ ArtworkExtent("side") = 1000) => w = 100

\* C5: a call that returns a document has cropped no window that ends past the
\* artwork: the window was clamped to the artwork or the call ended in an error.
C5_WindowInsideArtwork ==
    status = "success" =>
        \A p \in Composed :
            \A v \in AllPainted(PageAt(p)) :
                Window(v.image)[2] <= ArtworkExtent(v.image.name)

\* C6: under add_bleed with bleed B every page is W + B wide and H + 2B high, the
\* content of a recto page is at (0, B, W, B + H) and of a verso page at
\* (B, B, B + W, B + H); with B = 0.125 in and a 6 in x 9 in page the height is
\* 9.25 in, the recto rectangle (0, 0.125, 6, 9.125) in and the verso rectangle
\* (0.125, 0.125, 6.125, 9.125) in (inches are compared in eighths).
C6_AddBleedGeometry ==
    call.bleed_type = "add_bleed" =>
        \A p \in Composed :
            LET page == PageAt(p)
                W == call.original_width
                H == call.original_height
                B == BLEED_POINTS
                Eighths(rect) == [c \in 1..4 |-> rect[c] * POINTS_PER_INCH]
                Times8(rect) == [c \in 1..4 |-> 8 * rect[c]]
            IN  /\ page.width = W + B
                /\ page.height = H + 2 * B
                /\ page.content.rect = IF p % 2 = 0 THEN <<0, B, W, B + H>>
                                       ELSE <<B, B, B + W, B + H>>
                /\ (W = 6 * POINTS_PER_INCH /\ H = 9 * POINTS_PER_INCH) =>
                    /\ 8 * B = POINTS_PER_INCH
                    /\ 8 * page.height = 74 * POINTS_PER_INCH
                    /\ Times8(page.content.rect) = IF p % 2 = 0
                                                   THEN Eighths(<<0, 1, 48, 73>>)
                                                   ELSE Eighths(<<1, 1, 49, 73>>)

\* C6 witness: a recto and a verso page of a 6 in x 9 in document under add_bleed.
C6_Witness ==
    /\ call.bleed_type = "add_bleed"
    /\ call.original_width = 6 * POINTS_PER_INCH
    /\ call.original_height = 9 * POINTS_PER_INCH
    /\ Len(new_pdf) >= 2

\* C7: under existing_bleed every page, recto or verso, has the original width W and
\* height H and its content at (0, 0, W, H).
C7_ExistingBleedUnchanged ==
    call.bleed_type = "existing_bleed" =>
        \A p \in Composed :
            /\ PageAt(p).width = call.original_width
            /\ PageAt(p).height = call.original_height
            /\ PageAt(p).content.rect = <<0, 0, call.original_width, call.original_height>>

\* C7 witness: a recto and a verso page composed under existing_bleed.
C7_Witness ==
    /\ call.bleed_type = "existing_bleed"
    /\ Len(new_pdf) >= 2
    /\ status = "success"

\* C8: a side strip spans [canvasW - S, canvasW) horizontally on a recto page and
\* [0, S) on a verso page, under both bleed policies.
C8_SideStripExtent ==
    \A p \in Composed :
        \A v \in Painted(PageAt(p), "side") :
            <<v.rect[1], v.rect[3]>> =
                IF p % 2 = 0 THEN <<PageAt(p).width - StripThickness, PageAt(p).width>>
                ELSE <<0, StripThickness>>

\* C8 witness: side strips on a recto and on a verso page of an all-edges call under
\* existing_bleed.
C8_Witness ==
    /\ call.bleed_type = "existing_bleed"
    /\ call.edge_type = "all-edges"
    /\ Len(new_pdf) >= 2
    /\ Painted(PageAt(0), "side") # {}
    /\ Painted(PageAt(1), "side") # {}

\* C9: a top strip occupies [0, canvasW) x [0, S) and a bottom strip
\* [0, canvasW) x [canvasH - S, canvasH), on recto and verso pages alike.
C9_TopBottomExtent ==
    \A p \in Composed :
        /\ \A v \in Painted(PageAt(p), "top") :
                v.rect = <<0, 0, PageAt(p).width, StripThickness>>
        /\ \A v \in Painted(PageAt(p), "bottom") :
                v.rect = <<0, PageAt(p).height - StripThickness,
                           PageAt(p).width, PageAt(p).height>>

\* C9 witness: top and bottom strips on a recto and on a verso page.
C9_Witness ==
    /\ Len(new_pdf) >= 2
    /\ \A p \in {0, 1} : Painted(PageAt(p), "top") # {} /\ Painted(PageAt(p), "bottom") # {}

\* what two rectangles share, and whether that has any area
Intersection(r1, r2) ==
    <<Max2(r1[1], r2[1]), Max2(r1[2], r2[2]),
      0 - Max2(0 - r1[3], 0 - r2[3]), 0 - Max2(0 - r1[4], 0 - r2[4])>>

Overlap(r1, r2) ==
    LET both == Intersection(r1, r2) IN both[1] < both[3] /\ both[2] < both[4]

AllThree(p) ==
    /\ Painted(PageAt(p), "side") # {}
    /\ Painted(PageAt(p), "top") # {}
    /\ Painted(PageAt(p), "bottom") # {}

RectOf(p, name) == (CHOOSE v \in Painted(PageAt(p), name) : TRUE).rect

\* C10 as stated: on a page with side, top and bottom strips the three rectangles are
\* pairwise disjoint.
C10_PairwiseDisjoint ==
    \A p \in Composed : AllThree(p) =>
        /\ ~ Overlap(RectOf(p, "side"), RectOf(p, "top"))
        /\ ~ Overlap(RectOf(p, "side"), RectOf(p, "bottom"))
        /\ ~ Overlap(RectOf(p, "top"), RectOf(p, "bottom"))

\* C10 amended: on a page with side, top and bottom strips the side rectangle shares
\* area with the top and with the bottom rectangle (on a page at least S wide and
\* high, the S x S corners at the page's outer edge), and the top and bottom
\* rectangles are disjoint exactly when the page is at least 2S high.
C10_CornersShared ==
    \A p \in Composed : AllThree(p) =>
        LET page == PageAt(p)
            x0 == IF p % 2 = 0 THEN page.width - StripThickness ELSE 0
        IN  /\ Overlap(RectOf(p, "side"), RectOf(p, "top"))
            /\ Overlap(RectOf(p, "side"), RectOf(p, "bottom"))
            /\ Overlap(RectOf(p, "top"), RectOf(p, "bottom")) <=> page.height < 2 * StripThickness
            /\ (page.width >= StripThickness /\ page.height >= StripThickness) =>
                /\ Intersection(RectOf(p, "side"), RectOf(p, "top")) =
                        <<x0, 0, x0 + StripThickness, StripThickness>>
                /\ Intersection(RectOf(p, "side"), RectOf(p, "bottom")) =
                        <<x0, page.height - StripThickness, x0 + StripThickness, page.height>>

\* C10 witness: a verso page of a 6 in x 9 in document with the three strips.
C10_Witness ==
    /\ Len(new_pdf) >= 2
    /\ AllThree(1)
    /\ call.original_height = 9 * POINTS_PER_INCH

(***************************************************************************)
(* Properties of the requests (RequestSpec)                                *)
(***************************************************************************)
\* a request was made to process_files or to do_POST of api/process-pdf.py
Requested == call.fn \in {"process_files", "process_pdf_files_multi_edge", "api_process_pdf"}

\* the document that the caller gets: the pages of new_pdf after a success, nothing
\* after an error (the status is 400 or 500 and the body is a message)
ReturnedDocument == IF status = "success" THEN <<new_pdf>> ELSE None

\* the edges whose artwork the request brings
Supplied == DOMAIN call.edge_images

NoStripOf(e) == \A p \in Composed : Painted(PageAt(p), e) = {}

C12_SamePagesSameOrder ==
    status = "success" =>
        /\ Len(new_pdf) = call.pages
        /\ \A p \in Composed : PageAt(p).content.page = p

\* the edges of the selected mode whose artwork the request brings
EnabledEdges == IF call.edge_type = "side-only" THEN Supplied \cap {"side"} ELSE Supplied

\* C13: a run that has ended either returned a complete document, a page for every
\* page of the input and on every page a strip for every enabled edge, or it
\* returned an error and no document.
C13_CompleteOrNothing ==
    (Requested /\ status # "running") =>
        \/ /\ status = "success"
           /\ Len(new_pdf) = call.pages
           /\ \A p \in Composed : \A e \in EnabledEdges : Painted(PageAt(p), e) # {}
        \/ /\ status = "error"
           /\ ReturnedDocument = None

(***************************************************************************)
(* Two requests to /process-files in all-edges mode, each served by its    *)
(* own thread of the server (app.run serves every request in a thread of   *)
(* its own).  The threads have their own locals and share globals; the     *)
(* thread that runs changes between the passes of the page loops.          *)
(***************************************************************************)
\* a thread takes its request: the statements before the page loop
ThreadBegin(req) ==
    /\ status = "idle"
    /\ call' = req
    /\ page_num' = 0
    /\ previous_slice' = None
    /\ new_pdf' = <<>>
    /\ status' = "running"
    /\ runs' = runs + 1
    /\ UNCHANGED <<globals, suspended>>

BeginAllEdges ==
    \E pages \in 1..MaxDocPages, psz \in PageSizes, art \in RequestArtSizes :
        ThreadBegin(Arguments("process_pdf_files_multi_edge", "all-edges", 20, "standard",
                              "add_bleed", pages, psz, Images({"top", "side", "bottom"}, art)))

\* the other thread runs on
Switch ==
    /\ call' = suspended.call
    /\ page_num' = suspended.page_num
    /\ previous_slice' = suspended.previous_slice
    /\ new_pdf' = suspended.new_pdf
    /\ status' = suspended.status
    /\ suspended' = [call |-> call, page_num |-> page_num, previous_slice |-> previous_slice,
                     new_pdf |-> new_pdf, status |-> status]
    /\ UNCHANGED <<globals, runs>>

ConcurrentNext ==
    \/ BeginAllEdges
    \/ PageProcessPdfFilesMultiEdge
    \/ Return
    \/ Switch

ConcurrentSpec == Init /\ [][ConcurrentNext]_vars

\* the top and bottom strips of every verso page of a document mirror the strips of
\* the page before it (doc[i] is the page with page_num i - 1)
MirrorsOwnRecto(doc) ==
    \A i \in 1..Len(doc) : i % 2 = 0 =>
        \A v \in Painted(doc[i], "top") \cup Painted(doc[i], "bottom") :
            \E r \in Painted(doc[i - 1], v.image.name) : v.image = mirror(r.image)

\* C14: the mirror state of every edge is empty when a run starts and nothing of it
\* is left when the run has ended: whenever a thread is about to take a request and
\* no other run is in progress, neither the side slot nor the slots of top and
\* bottom hold a strip.
C14_NoResidualMirrorState ==
    (status = "idle" /\ suspended.status # "running") =>
        /\ previous_slice = None
        /\ "previous_top_slice" \notin DOMAIN globals
        /\ "previous_bottom_slice" \notin DOMAIN globals

\* C15: in every interleaving of two all-edges runs, the top and bottom strips of
\* every verso page mirror the recto strips of the same leaf of the same run.
C15_NoSharedMirrorState ==
    /\ MirrorsOwnRecto(new_pdf)
    /\ MirrorsOwnRecto(suspended.new_pdf)

(***************************************************************************)
(* Properties of the requests (RequestSpec), continued                     *)
(***************************************************************************)
\* the request has been answered
Answered == call.fn # "none" /\ status # "running"

\* C16: a request with numPages that is 0 or negative, for a document of one page or
\* more, ends in an error and returns no document.
C16_NonPositivePagesFail ==
    (Answered /\ call.num_pages <= 0 /\ call.pages >= 1) =>
        /\ status = "error"
        /\ ReturnedDocument = None

\* the artwork that the selected mode requires
RequiredArtwork == IF call.edge_type = "side-only" THEN {"side"} ELSE EdgeNames

\* C17: a request that lacks artwork its mode requires (the side artwork in
\* side-only mode, any of top, side and bottom in all-edges mode) ends in an error
\* and returns no document.
C17_MissingArtworkFails ==
    (Answered /\ Requested /\ ~ (RequiredArtwork \subseteq Supplied)) =>
        /\ status = "error"
        /\ ReturnedDocument = None

(***************************************************************************)
(* Properties of the page loops (Spec), continued                          *)
(***************************************************************************)
\* every strip of the state: painted on a page or kept for the verso page
Strips ==
    UNION {{v.image : v \in AllPainted(PageAt(p))} : p \in Composed}
        \cup {previous_slice[i] : i \in DOMAIN previous_slice}
        \cup {globals[key] : key \in DOMAIN globals}

RoundDiv(p, q) ==
    LET low == p \div q
        twice == 2 * (p % q)
    IN  IF twice < q THEN low
        ELSE IF twice > q THEN low + 1
        ELSE IF low % 2 = 0 THEN low ELSE low + 1

\* C19: with L >= 1 leaves the slice cut for a recto page from an artwork of extent
\* Ew is max(1, round(Ew / L)) wide.
C19_SliceWidthRounded ==
    \A p \in Composed : p % 2 = 0 =>
        \A v \in AllPainted(PageAt(p)) :
            num_leaves(call.num_pages) >= 1 =>
                Window(v.image)[2] - Window(v.image)[1] =
                    Max2(1, RoundDiv(ArtworkExtent(v.image.name), num_leaves(call.num_pages)))

\* the single slot that keeps the recto strip of an edge: the local previous_slice
\* for the side edge, a name of globals() for the top and the bottom edge
Cache(e) ==
    IF e = "side" THEN previous_slice
    ELSE IF ("previous_" \o e \o "_slice") \in DOMAIN globals
    THEN <<globals["previous_" \o e \o "_slice"]>>
    ELSE None

\* the page loop has composed page_num pages and raised nothing
Composing == call.fn # "none" /\ status \in {"running", "success"}

\* the strip of edge e on page p
StripOn(p, e) == (CHOOSE v \in Painted(PageAt(p), e) : TRUE).image

\* C20 as stated: an edge is Idle, its cache empty, before the first page and after
\* every complete leaf: the verso page has consumed the cached strip.
C20_CacheConsumedByVerso ==
    (Composing /\ page_num % 2 = 0) =>
        \A e \in DOMAIN call.edge_images : Cache(e) = None

\* C20 amended: every edge with artwork goes through Idle (an even number of pages
\* composed) and AwaitingVerso (an odd number): a recto page paints a fresh strip,
\* cut at the leaf's window and not mirrored, and caches it; a verso page paints the
\* mirror of the cached strip; the verso page does not consume the strip: the cache
\* keeps the strip of the latest recto page until the next recto page replaces it.
C20_RectoCachesVersoMirrors ==
    Composing =>
        \A e \in DOMAIN call.edge_images :
            /\ Len(new_pdf) = page_num
            /\ \A p \in Composed :
                /\ Cardinality(Painted(PageAt(p), e)) = 1
                /\ p % 2 = 0 =>
                    /\ StripOn(p, e).left < StripOn(p, e).right
                    /\ Window(StripOn(p, e))[1] =
                            (p \div 2) * (Window(StripOn(p, e))[2] - Window(StripOn(p, e))[1])
                /\ p % 2 = 1 => StripOn(p, e) = mirror(StripOn(p - 1, e))
            /\ page_num >= 1 => Cache(e) = <<StripOn(2 * ((page_num - 1) \div 2), e)>>

\* C20 witness: two leaves of an all-edges call are complete and the caches of the
\* three edges still hold the strips of page 2.
C20_Witness ==
    /\ Composing
    /\ call.edge_type = "all-edges"
    /\ page_num = 4
    /\ \A e \in EdgeNames : Cache(e) = <<StripOn(2, e)>> /\ StripOn(3, e) = mirror(StripOn(2, e))

(***************************************************************************)
(* Properties of the mirror state across runs (ConcurrentSpec)             *)
(***************************************************************************)
\* the pages of both requests
BothDocuments == {new_pdf[i] : i \in DOMAIN new_pdf}
                    \cup {suspended.new_pdf[i] : i \in DOMAIN suspended.new_pdf}

\* the slot of edge e holds a recto strip that no verso page has mirrored yet
Unconsumed(e) ==
    /\ Cache(e) # None
    /\ \A page \in BothDocuments :
            \A v \in Painted(page, e) : v.image # mirror(Cache(e)[1])

\* a pass of the page loop for a recto page
RectoPass ==
    /\ status = "running"
    /\ page_num % 2 = 0
    /\ Len(new_pdf') = Len(new_pdf) + 1

\* C21: a recto page processed for an edge whose slot still holds a recto strip that
\* no verso page has used ends the run in an error; the strip in the slot is not
\* overwritten.
C21_RectoOnUnconsumedIsFatal ==
    [][\A e \in {"top", "bottom"} :
          (RectoPass /\ Unconsumed(e)) => (status' = "error" /\ Cache(e)' = Cache(e))]_vars

(***************************************************************************)
(* Properties of the page loops (Spec), continued                          *)
(***************************************************************************)
\* C22: every strip painted on a page is S = bleed + safetyBuffer = 18 points
\* (a quarter of an inch) thick across its edge and as long as the canvas along it,
\* the canvas height for the side strip and the canvas width for the top and bottom
\* strips, in its placement and in its pixels, whatever the bleed policy, the page
\* type, the leaf and the width of the slice.
C22_StripThicknessFixed ==
    /\ StripThickness = 18
    /\ 4 * StripThickness = POINTS_PER_INCH
    /\ \A p \in Composed :
        \A v \in AllPainted(PageAt(p)) :
            LET page == PageAt(p)
                across == IF v.image.name = "side" THEN 1 ELSE 2
                along == IF v.image.name = "side" THEN 2 ELSE 1
                canvas == <<page.width, page.height>>
            IN  /\ v.rect[across + 2] - v.rect[across] = StripThickness
                /\ v.rect[along] = 0
                /\ v.rect[along + 2] = canvas[along]
                /\ v.image.size[across] = StripThickness
                /\ v.image.size[along] = canvas[along]

\* C22 witness: the three strips on the verso page of leaf 1 of a premium call under
\* existing_bleed, cut from slices that are not S wide.
C22_Witness ==
    /\ call.bleed_type = "existing_bleed"
    /\ call.page_type = "premium"
    /\ Len(new_pdf) = 4
    /\ AllThree(3)
    /\ \A v \in AllPainted(PageAt(2)) :
            Window(v.image)[2] - Window(v.image)[1] # StripThickness

\* the image operations a page has recorded for the strip of edge e, in order
OperationsOf(page, e) ==
    LET of_edge(o) == o[1] = e
        ops == SelectSeq(page.operations, of_edge)
    IN  [i \in DOMAIN ops |-> ops[i][2]]

\* C23 as stated: on a verso page, whose recto page has been processed, no crop and
\* no resize is performed for any edge; the only operation on a strip is the mirror
\* of the cached recto strip.
C23_VersoOnlyMirrors ==
    Composing =>
        \A p \in Composed :
            p % 2 = 1 =>
                \A e \in DOMAIN call.edge_images : OperationsOf(PageAt(p), e) = <<"mirror">>

\* C23 amended: on a verso page the strip painted for every edge is the mirror of the
\* strip of its recto page and nothing else is painted for the edge; the top and the
\* bottom edge perform no crop and no resize there, while the side edge crops and
\* resizes its slice again, as on a recto page, and discards the result.
C23_VersoPaintsOnlyMirror ==
    Composing =>
        \A p \in Composed :
            \A e \in DOMAIN call.edge_images :
                /\ Cardinality(Painted(PageAt(p), e)) = 1
                /\ p % 2 = 0 => OperationsOf(PageAt(p), e) = slice_operations
                /\ p % 2 = 1 =>
                    /\ StripOn(p, e) = mirror(StripOn(p - 1, e))
                    /\ OperationsOf(PageAt(p), e) =
                           IF e = "side" THEN slice_operations \o <<"mirror">>
                           ELSE <<"mirror">>

\* C23 witness: the verso page of leaf 1 of an all-edges call, where the side slice
\* was cut again and the top and bottom strips were only mirrored.
C23_Witness ==
    /\ Composing
    /\ call.edge_type = "all-edges"
    /\ Len(new_pdf) = 4
    /\ OperationsOf(PageAt(3), "side") = <<"crop", "resize", "resize", "mirror">>
    /\ OperationsOf(PageAt(3), "top") = <<"mirror">>
    /\ OperationsOf(PageAt(3), "bottom") = <<"mirror">>
    /\ \A e \in EdgeNames : StripOn(3, e) = mirror(StripOn(2, e))

(***************************************************************************)
(* Runs one after the other: SequentialSpec.  The requests to              *)
(* /process-files are served without overlap: the next request is taken    *)
(* when the run of the request before it has returned or raised.  The      *)
(* module namespace, globals, is the one of the process and is kept from   *)
(* run to run; suspended holds the request served before.                  *)
(***************************************************************************)
\* the run has ended and the server takes the next request
NextRequest ==
    /\ status \in {"success", "error"}
    /\ suspended.status = "idle"
    /\ Switch

\* a request in all-edges mode on either paper
BeginOnPaper ==
    \E pages \in 1..MaxDocPages, psz \in PageSizes, art \in RequestArtSizes,
       page_type \in PageTypes :
        ThreadBegin(Arguments("process_pdf_files_multi_edge", "all-edges", 20, page_type,
                              "add_bleed", pages, psz, Images({"top", "side", "bottom"}, art)))

SequentialNext ==
    \/ BeginOnPaper
    \/ PageProcessPdfFilesMultiEdge
    \/ Return
    \/ NextRequest

SequentialSpec == Init /\ [][SequentialNext]_vars

\* C24: in runs of process_pdf_files_multi_edge that do not overlap, a top or bottom
\* strip left in the module globals by an earlier run is never read by a later run:
\* when a verso page is about to be processed the global of each edge holds the
\* strip that the recto page before it, of the same run, has written, and every top
\* and bottom strip on a verso page is the mirror of the strip on that recto page.
C24_VersoReadsOwnRun ==
    /\ MirrorsOwnRecto(new_pdf)
    /\ MirrorsOwnRecto(suspended.new_pdf)
    /\ (status = "running" /\ page_num % 2 = 1) =>
          \A e \in {"top", "bottom"} :
              /\ Len(new_pdf) = page_num
              /\ Cache(e) = <<StripOn(page_num - 1, e)>>

\* C24 witness: the second run has painted the verso page of leaf 0 with the mirrors
\* of its own recto strips, while the run before it, on pages of another size, had
\* left other strips in the globals.
C24_Witness ==
    /\ suspended.status = "success"
    /\ Len(suspended.new_pdf) >= 1
    /\ status = "running"
    /\ Len(new_pdf) = 2
    /\ \A e \in {"top", "bottom"} :
          /\ StripOn(1, e) = mirror(StripOn(0, e))
          /\ \A v \in Painted(suspended.new_pdf[Len(suspended.new_pdf)], e) :
                /\ v.image # StripOn(0, e)
                /\ v.image # StripOn(1, e)

(***************************************************************************)
(* Properties of the slice windows (Spec)                                  *)
(***************************************************************************)
\* the slice window of every strip painted lies inside the artwork:
\* 0 <= start < end <= Ew, when the document has at most numPages pages and Ew >= L
WindowsInsideArtwork ==
    \A p \in Composed :
        \A v \in AllPainted(PageAt(p)) :
            (/\ call.pages <= call.num_pages
             /\ ArtworkExtent(v.image.name) >= num_leaves(call.num_pages)) =>
                /\ 0 <= Window(v.image)[1]
                /\ Window(v.image)[1] < Window(v.image)[2]
                /\ Window(v.image)[2] <= ArtworkExtent(v.image.name)

\* C25: if the document has at most numPages pages and the artwork extent Ew is at
\* least L = (numPages + 1) // 2, the slice window of every processed page satisfies
\* 0 <= start < end <= Ew, and the L windows of the leaves, each as wide as the
\* window of the page, leave at most L - 1 trailing pixels of the artwork outside.
C25_WindowsCoverArtwork ==
    /\ WindowsInsideArtwork
    /\ \A p \in Composed :
        \A v \in AllPainted(PageAt(p)) :
            LET L == num_leaves(call.num_pages)
                Ew == ArtworkExtent(v.image.name)
                w == Window(v.image)[2] - Window(v.image)[1]
            IN  (call.pages <= call.num_pages /\ Ew >= L) => Ew - L * w <= L - 1

(***************************************************************************)
(* Properties of two runs (SequentialSpec)                                 *)
(***************************************************************************)
\* the calls a and b have the same arguments and files but for page_type
DifferOnlyInPageType(a, b) ==
    /\ a.fn # "none"
    /\ a.page_type # b.page_type
    /\ a.fn = b.fn
    /\ a.edge_type = b.edge_type
    /\ a.num_pages = b.num_pages
    /\ a.bleed_type = b.bleed_type
    /\ a.pages = b.pages
    /\ a.original_width = b.original_width
    /\ a.original_height = b.original_height
    /\ a.edge_images = b.edge_images

\* the slice windows of the strips of edge e on a page
WindowsOn(page, e) == {Window(v.image) : v \in Painted(page, e)}

\* C26: the slice windows do not depend on the page type: two runs whose calls
\* differ only in page_type cut the same window, of the same width, for every edge
\* on every page that both have processed.
C26_WindowsIndependentOfPageType ==
    DifferOnlyInPageType(call, suspended.call) =>
        \A i \in (DOMAIN new_pdf) \cap (DOMAIN suspended.new_pdf) :
            \A e \in EdgeNames :
                WindowsOn(new_pdf[i], e) = WindowsOn(suspended.new_pdf[i], e)

(***************************************************************************)
(* The four code paths of the side edge (Spec)                             *)
(***************************************************************************)
\* the call with the same document, bleed policy, num_pages, page type and side
\* artwork, made to the function fn in the mode edge_type
SideCall(req, fn, edge_type) ==
    Arguments(fn, edge_type, req.num_pages, req.page_type, req.bleed_type, req.pages,
              <<req.original_width, req.original_height>>,
              [e \in {"side"} |-> req.edge_images["side"]])

\* the pass for page pn of the four paths, from the same cached strip
SidePasses(req, pn, prev, glob) ==
    {process_pdf_files_page(SideCall(req, "process_pdf_files", "side-only"), pn, prev, glob),
     process_pdf_files_multi_edge_page(
         SideCall(req, "process_pdf_files_multi_edge", "side-only"), pn, prev, glob),
     process_pdf_files_multi_edge_page(
         SideCall(req, "process_pdf_files_multi_edge", "all-edges"), pn, prev, glob),
     api_process_pdf_page(SideCall(req, "api_process_pdf", "side-only"), pn, prev, glob)}
        \cup (IF req.fn = "process_pdf_files_multi_edge"
              THEN {process_pdf_files_multi_edge_page(req, pn, prev, glob)} ELSE {})

\* what a pass has computed for the side edge: the canvas, the content rectangle, the
\* strip with its slice window and rectangle, the operations and the cached strip
SideView(res) ==
    [raised |-> res.raised,
     canvas |-> <<res.page.width, res.page.height>>,
     content |-> res.page.content,
     strips |-> Painted(res.page, "side"),
     windows |-> WindowsOn(res.page, "side"),
     operations |-> OperationsOf(res.page, "side"),
     cache |-> res.previous_slice]

\* C27: the duplicated code paths of the side edge agree: for the same page size,
\* bleed policy, num_pages, artwork and page index, process_pdf_files, the side-only
\* and the all-edges side branch of process_pdf_files_multi_edge and the api
\* process_pdf compute the same canvas, content rectangle, slice window and strip
\* rectangle, and take the same step on the cached strip: store it on a recto page,
\* mirror it on a verso page.
C27_SidePathsAgree ==
    (status = "running" /\ page_num < call.pages /\ "side" \in DOMAIN call.edge_images) =>
        Cardinality({SideView(res) :
                        res \in SidePasses(call, page_num, previous_slice, globals)}) = 1

\* C27 witness: the verso page of leaf 1 that the api process_pdf has composed on
\* premium paper is, for the side edge, the page that process_pdf_files composes
\* from the same recto strip.
C27_Witness ==
    /\ call.fn = "api_process_pdf"
    /\ call.page_type = "premium"
    /\ call.num_pages = 20
    /\ Len(new_pdf) = 4
    /\ Painted(PageAt(3), "side") # {}
    /\ PageAt(3) =
          process_pdf_files_page(SideCall(call, "process_pdf_files", "side-only"), 3,
                                 <<StripOn(2, "side")>>, globals).page

====
